---- MODULE Spec2Model ----
(***************************************************************************)
(* io-queue-rdma: the per-connection I/O engine of src/src/executor.rs     *)
(* (push, recv-refill and completion coroutines, driven by IoQueue::wait   *)
(* of src/src/lib.rs) for two connected endpoints, with the reliable-      *)
(* connection adapter between them: a send queue and a receive queue per   *)
(* endpoint, a completion queue per endpoint and the one-cell registered   *)
(* memory the peer writes its receive-window grants into.                  *)
(***************************************************************************)
EXTENDS Integers, Sequences, FiniteSets, TLC

\* ------------------------------------------------------------- bounds
\* Push calls the user of A issues when B only receives.
MaxPush == 3
\* Pop tokens a user holds at a time.
MaxPopTokens == 1
\* Buffers a user holds at a time before it stops calling malloc.
MaxHeld == 1

\* Full batches of completions the adapter lets pile up in a completion queue.
MaxBatches == 2

\* The values of the const generic WINDOW_SIZE the model instantiates IoQueue with.
WindowSizes == {1, 2}

\* CQ_ELEMENTS of the example program: the most entries one cq.poll() returns.
CQ_ELEMENTS == 32

Endpoints == {"A", "B"}

Peer(e) == IF e = "A" THEN "B" ELSE "A"

VARIABLES
    WINDOW_SIZE,   \* the const generic WINDOW_SIZE both endpoints are built with
    tasks,         \* endpoint -> its ConnectionTask, ControlFlow, queue pair and completion queue
    app            \* endpoint -> the calling program: buffers held, tokens, the call in progress

vars == <<WINDOW_SIZE, tasks, app>>

\* ------------------------------------------------------------- helpers
min(a, b) == IF a < b THEN a ELSE b

Range(s) == {s[i] : i \in 1..Len(s)}

\* The first n elements of s and the rest (VecDeque::drain(..n)).
Take(s, n) == SubSeq(s, 1, n)

Drop(s, n) == SubSeq(s, n + 1, Len(s))

\* HashMap as a set of (work_id, memory) entries with distinct keys.
Keys(m) == {x.work_id : x \in m}

Lookup(m, k) == CHOOSE x \in m : x.work_id = k

NoPanic == "none"

\* (A low-water mark above the window: a refill whenever one is asked for.)
LowWaterAbove(w) == w + 1

\* The windows the low-water mark is compared against: (WINDOW_SIZE / 2) as u64.
LowWater(w) == w \div 2

Panic(t, why) == [t EXCEPT !.panicked = why]

\* ------------------------------------------------------------- ControlFlow
\* src/src/control_flow.rs is not part of the sources at hand; these follow the
\* contract the specification gives for it (section 4.2).
remaining_send_windows(t) == t.remaining_send_window

\* Non-destructive read of the cell the peer writes its grants into.
other_side_recv_windows(t) == t.our_recv_window

ack_peer_recv_windows(t) == [t EXCEPT !.our_recv_window = 0]

subtract_remaining_send_windows(t, n) ==
    IF n > t.remaining_send_window
    THEN Panic(t, "attempt to subtract with overflow")
    ELSE [t EXCEPT !.remaining_send_window = @ - n]

remaining_receive_windows(t) == t.remaining_receive_window

\* Counts the n new receives and publishes n to the peer with a one-sided write,
\* posted on the same send queue as the sends.
add_recv_windows(t, n) ==
    [t EXCEPT !.remaining_receive_window = @ + n,
              !.sq = Append(@, [op |-> "write", work_id |-> 0, memory |-> 0, value |-> n])]

subtract_recv_windows(t, n) ==
    IF n > t.remaining_receive_window
    THEN Panic(t, "attempt to subtract with overflow")
    ELSE [t EXCEPT !.remaining_receive_window = @ - n]

\* ------------------------------------------------------------- queue pair
\* queue_pairs.post_send(requests.iter(), PostSendOpcode::Send): one send work request
\* per entry, in the iterator's order. posted_sends is the history of what was posted.
post_send(t, requests) ==
    [t EXCEPT !.sq = @ \o [i \in 1..Len(requests) |->
                              [op |-> "send", work_id |-> requests[i].work_id,
                               memory |-> requests[i].memory, value |-> 0]],
              !.posted_sends = @ \o [i \in 1..Len(requests) |-> requests[i].work_id]]

\* queue_pair.post_receive(receive_buffers.iter())
post_receive(t, receive_buffers) ==
    [t EXCEPT !.rq = @ \o receive_buffers,
              !.posted_recvs = @ + Len(receive_buffers)]

\* ------------------------------------------------------------- push coroutine
\* (A push coroutine that posts everything that is pending, whatever the credit.)
requests_number_all(pending, available_windows) == pending

\* let requests_number = min(work_requests.len(), available_windows as usize);
requests_number(pending, available_windows) == min(pending, available_windows)

\* (A drain that hands the first n requests over last to first.)
drain_requests_reversed(work_requests, n) ==
    [i \in 1..n |-> work_requests[n + 1 - i]]

\* work_requests.drain(..requests_number), pushed back onto requests in that order.
drain_requests(work_requests, n) == Take(work_requests, n)

\* processed_requests.insert(work_id, memory) for each entry in turn, asserting that
\* the key was absent ("duplicate entry").
RECURSIVE insert_all(_, _)
insert_all(t, entries) ==
    IF t.panicked # NoPanic \/ entries = <<>> THEN t
    ELSE IF Head(entries).work_id \in Keys(t.processed_requests)
         THEN Panic(t, "duplicate entry")
         ELSE insert_all([t EXCEPT !.processed_requests = @ \cup {Head(entries)}],
                         Tail(entries))

\* (A SendWindows that counts the grant twice.)
adopt_windows_twice(t) ==
    ack_peer_recv_windows([t EXCEPT !.remaining_send_window = 2 * t.available_windows])

\* (A SendWindows that adopts the grant and leaves the cell as it is.)
adopt_windows_no_ack(t) ==
    [t EXCEPT !.remaining_send_window = t.available_windows]

\* SendWindows::poll_next on a nonzero grant: cf.remaining_send_window = recv_windows;
\* cf.ack_peer_recv_windows().
adopt_windows(t) ==
    ack_peer_recv_windows([t EXCEPT !.remaining_send_window = t.available_windows])

\* One poll of push_coroutine: runs until the coroutine is Pending. push_state is the
\* await it is suspended at ("send_windows": send_windows.next(), "recv":
\* push_work.recv()). The poll is cut once, at "adopt": after SendWindows::poll_next
\* has read a nonzero grant and before it stores and acknowledges it, where the peer's
\* adapter may write the cell again.
RECURSIVE push_coroutine(_)
push_coroutine(t) ==
    IF t.panicked # NoPanic THEN t
    ELSE IF t.push_state = "send_windows" THEN
        IF remaining_send_windows(t) = 0 THEN
            IF other_side_recv_windows(t) # 0
            THEN [t EXCEPT !.push_state = "adopt",
                           !.available_windows = other_side_recv_windows(t)]
            ELSE t
        ELSE push_coroutine([t EXCEPT !.push_state = "work",
                                      !.available_windows = remaining_send_windows(t)])
    ELSE IF t.push_state = "adopt" THEN
        push_coroutine([adopt_windows(t) EXCEPT !.push_state = "work"])
    ELSE IF t.push_state \in {"work", "recv"} THEN
        IF t.push_state = "recv" \/ t.work_requests = <<>> THEN
            IF t.push_work = <<>>
            THEN [t EXCEPT !.push_state = "recv"]
            ELSE push_coroutine([t EXCEPT !.work_requests = Append(@, Head(t.push_work)),
                                          !.push_work = Tail(@),
                                          !.push_state = "post"])
        ELSE push_coroutine([t EXCEPT !.push_state = "post"])
    ELSE
        LET all == t.work_requests \o t.push_work
            n == requests_number(Len(all), t.available_windows)
            requests == drain_requests(all, n)
            rest == [t EXCEPT !.work_requests = Drop(all, n), !.push_work = <<>>]
            posted == insert_all(post_send(rest, requests), requests)
        IN  IF posted.panicked # NoPanic THEN posted
            ELSE push_coroutine(
                     [subtract_remaining_send_windows(posted, n)
                          EXCEPT !.push_state = "send_windows"])

\* ------------------------------------------------------------- recv coroutine
\* (A stream that is ready at the low-water mark already.)
recv_windows_ready_at_mark(t, w) == LowWater(w) >= remaining_receive_windows(t)

\* RemainingReceiveWindows::poll_next: Ready(WINDOW_SIZE) below the low-water mark.
recv_windows_ready(t, w) == LowWater(w) > remaining_receive_windows(t)

\* One poll of recv_buffers_coroutine. After a refill the loop polls the stream again,
\* which is Pending (WINDOW_SIZE more receives are counted).
recv_buffers_coroutine(t, w) ==
    IF t.panicked # NoPanic \/ ~recv_windows_ready(t, w) THEN t
    ELSE
        LET how_many == w
            work_id == t.work_id_counter
        IN  IF Len(t.memory_pool) < how_many
            THEN Panic([t EXCEPT !.receive_buffers =
                                     [i \in 1..Len(t.memory_pool) |->
                                         [work_id |-> work_id + i - 1,
                                          memory |-> t.memory_pool[i]]],
                                 !.memory_pool = <<>>],
                       "Memory pool is empty.")
            ELSE
                LET receive_buffers == [i \in 1..how_many |->
                                           [work_id |-> work_id + i - 1,
                                            memory |-> t.memory_pool[i]]]
                    taken == [t EXCEPT !.memory_pool = Drop(@, how_many)]
                    posted == insert_all(post_receive(taken, receive_buffers),
                                         receive_buffers)
                IN  IF posted.panicked # NoPanic THEN posted
                    ELSE add_recv_windows(
                             [posted EXCEPT !.work_id_counter = @ + how_many], how_many)

\* ------------------------------------------------------------- completion coroutine
\* (A completion coroutine that leaves the buffer's length as it was.)
initialize_length_skip(t, memory, bytes_transferred) == t

\* memory.initialize_length(bytes_transferred)
initialize_length(t, memory, bytes_transferred) ==
    [t EXCEPT !.len[memory] = bytes_transferred]

\* (A loop body that takes the completion of a one-sided write or read for that of a
\* receive nobody posted.)
process_completion_rdma_as_recv(t, c) ==
    IF c.status # "success"
    THEN Panic(t, "Completion queue event with error status")
    ELSE IF c.opcode \in {"RDMA_WRITE", "RDMA_READ"}
    THEN [t EXCEPT !.completed_pops = Append(@, 1)]
    ELSE IF c.wr_id \notin Keys(t.processed_requests)
    THEN Panic(t, "Processed entry for completed wr missing.")
    ELSE LET entry == Lookup(t.processed_requests, c.wr_id)
         IN  IF c.opcode = "RECV"
             THEN [initialize_length(t, entry.memory, c.byte_len)
                      EXCEPT !.processed_requests = @ \ {entry},
                             !.completed_pops = Append(@, entry.memory)]
             ELSE [t EXCEPT !.processed_requests = @ \ {entry},
                            !.completed_pushes = @ \cup {entry}]

\* The body of `for c in completed`, for one work completion c.
process_completion(t, c) ==
    IF c.status # "success"
    THEN Panic(t, "Completion queue event with error status")
    ELSE IF c.opcode \in {"RECV", "SEND"} /\ c.wr_id \notin Keys(t.processed_requests)
    THEN Panic(t, "Processed entry for completed wr missing.")
    ELSE IF c.opcode = "RECV" THEN
        LET entry == Lookup(t.processed_requests, c.wr_id)
        IN  [initialize_length(t, entry.memory, c.byte_len)
                EXCEPT !.processed_requests = @ \ {entry},
                       !.completed_pops = Append(@, entry.memory)]
    ELSE IF c.opcode = "SEND" THEN
        LET entry == Lookup(t.processed_requests, c.wr_id)
        IN  IF c.wr_id \in Keys(t.completed_pushes)
            THEN Panic([t EXCEPT !.processed_requests = @ \ {entry}], "duplicate entry")
            ELSE [t EXCEPT !.processed_requests = @ \ {entry},
                           !.completed_pushes = @ \cup {entry}]
    ELSE IF c.opcode \in {"RDMA_WRITE", "RDMA_READ"} THEN t
    ELSE Panic(t, "Unknown ibv_wc opcode")

\* (A batch that subtracts one for every completion, whatever its opcode.)
RECURSIVE process_completions_count_all(_, _, _)
process_completions_count_all(t, completed, recv_requests_completed) ==
    IF t.panicked # NoPanic THEN t
    ELSE IF completed = <<>> THEN subtract_recv_windows(t, recv_requests_completed)
    ELSE process_completions_count_all(
             process_completion(t, Head(completed)), Tail(completed),
             recv_requests_completed + 1)

\* The whole batch, then control_flow.subtract_recv_windows(recv_requests_completed).
RECURSIVE process_completions(_, _, _)
process_completions(t, completed, recv_requests_completed) ==
    IF t.panicked # NoPanic THEN t
    ELSE IF completed = <<>> THEN subtract_recv_windows(t, recv_requests_completed)
    ELSE process_completions(
             process_completion(t, Head(completed)), Tail(completed),
             IF Head(completed).opcode = "RECV"
             THEN recv_requests_completed + 1 ELSE recv_requests_completed)

\* (A completion coroutine without Yield: it loops until the completion queue is
\* empty.)
completions_coroutine_no_yield(t) ==
    IF t.panicked # NoPanic THEN t
    ELSE IF t.cq = <<>> THEN [t EXCEPT !.completions_state = "next"]
    ELSE [process_completions([t EXCEPT !.cq = <<>>], t.cq, 0)
             EXCEPT !.completions_state = "next"]

\* One poll of completions_coroutine. Suspended at Yield ("yield") it resumes, loops and
\* polls the completion queue in the same poll; an empty queue leaves it Pending at
\* event_stream.next() ("next"); a batch is processed and followed by Yield.
completions_coroutine(t) ==
    IF t.panicked # NoPanic THEN t
    ELSE IF t.cq = <<>> THEN [t EXCEPT !.completions_state = "next"]
    ELSE LET k == min(Len(t.cq), CQ_ELEMENTS)
             drained == [t EXCEPT !.cq = Drop(@, k)]
             done == process_completions(drained, Take(t.cq, k), 0)
         IN  IF done.panicked # NoPanic THEN done
             ELSE [done EXCEPT !.completions_state = "yield"]

\* ------------------------------------------------------------- Executor
Buffers(w) == 1..(2 * w)

NoToken == [op |-> "None", work_id |-> 0]

PopToken == [op |-> "Pop", work_id |-> 0]

PushToken(work_id) == [op |-> "Push", work_id |-> work_id]

\* A ConnectionTask before add_new_connection has run for it.
NewTask(w) ==
    [connected |-> FALSE, panicked |-> NoPanic,
     memory_pool |-> <<>>,
     mem |-> [b \in Buffers(w) |-> 0], len |-> [b \in Buffers(w) |-> 0],
     push_work |-> <<>>, work_requests |-> <<>>,
     push_state |-> "send_windows", available_windows |-> 0,
     receive_buffers |-> <<>>,
     processed_requests |-> {}, completed_pushes |-> {}, completed_pops |-> <<>>,
     work_id_counter |-> 0,
     remaining_send_window |-> 0, remaining_receive_window |-> 0, our_recv_window |-> 0,
     sq |-> <<>>, rq |-> <<>>, cq |-> <<>>,
     completions_state |-> "next",
     posted_sends |-> <<>>, posted_recvs |-> 0, wire |-> <<>>,
     filled |-> [b \in Buffers(w) |-> [data |-> 0, len |-> 0]]]

\* Executor::add_new_connection: registers 2 * WINDOW_SIZE buffers as the pool and
\* schedules the recv coroutine once.
add_new_connection(t, w) ==
    recv_buffers_coroutine(
        [t EXCEPT !.connected = TRUE,
                  !.memory_pool = [i \in 1..(2 * w) |-> i]], w)

\* (A malloc that hands out the front buffer and leaves it in the pool.)
malloc_keep(t) ==
    IF t.memory_pool = <<>> THEN Panic(t, "Out of memory!") ELSE t

\* Executor::malloc: memory_pool.pop_front().expect("Out of memory!")
malloc(t) ==
    IF t.memory_pool = <<>> THEN Panic(t, "Out of memory!")
    ELSE [t EXCEPT !.memory_pool = Tail(@)]

\* Executor::free: memory.reset_access(), then memory_pool.push_back(memory)
free(t, memory) ==
    [t EXCEPT !.len[memory] = 0, !.memory_pool = Append(@, memory)]

\* The work id Executor::push gives the request, and the counter after it.
push_work_id(t) == t.work_id_counter

\* (A push that forgets to advance the counter.)
push_next_counter_same(t) == t.work_id_counter

push_next_counter(t) == t.work_id_counter + 1

\* (A push that schedules the completion coroutine as well.)
push_and_drain(t, memory) ==
    completions_coroutine(
        push_coroutine(
            [t EXCEPT !.work_id_counter = push_next_counter(t),
                      !.push_work = Append(@, [work_id |-> push_work_id(t),
                                               memory |-> memory])]))

\* Executor::push: takes a work id, sends the request down the channel and schedules
\* the push coroutine once.
push(t, memory) ==
    push_coroutine(
        [t EXCEPT !.work_id_counter = push_next_counter(t),
                  !.push_work = Append(@, [work_id |-> push_work_id(t),
                                           memory |-> memory])])

\* (A pop that schedules the recv coroutine, the call the source has commented out.)
pop_and_schedule(t, w) == recv_buffers_coroutine(t, w)

\* Executor::pop: the token, and the task as it was.
pop(t, w) == t

\* Executor::wait: the entry it removes for qt, as a set (empty for None).
\* completed_pushes.remove(&work_id) for a push token, completed_pops.pop() for a pop
\* token.
wait_pushes(t, qt) == {x \in t.completed_pushes : x.work_id = qt.work_id}

wait_pops(t) ==
    IF t.completed_pops = <<>> THEN {}
    ELSE {[index |-> Len(t.completed_pops),
           memory |-> t.completed_pops[Len(t.completed_pops)]]}

wait_found(t, qt) ==
    IF qt.op = "Push" THEN wait_pushes(t, qt) # {} ELSE wait_pops(t) # {}

\* (A wait that returns whichever completed push or pop comes first.)
wait_memory_any(t, qt) ==
    IF qt.op = "Push"
    THEN (CHOOSE x \in t.completed_pushes :
             \A y \in t.completed_pushes : x.work_id <= y.work_id).memory
    ELSE (CHOOSE x \in wait_pops(t) : TRUE).memory

\* The buffer Executor::wait returns (when wait_found).
wait_memory(t, qt) ==
    IF qt.op = "Push" THEN (CHOOSE x \in wait_pushes(t, qt) : TRUE).memory
    ELSE (CHOOSE x \in wait_pops(t) : TRUE).memory

\* (A wait that leaves what it returns in the completed store.)
wait_keep(t, qt) == t

\* The task after Executor::wait has removed what it returns. (filled, the record of
\* what the adapter placed in a buffer, ends when the buffer is handed to the user.)
wait(t, qt) ==
    IF ~wait_found(t, qt) THEN t
    ELSE IF qt.op = "Push"
    THEN [t EXCEPT !.completed_pushes = @ \ wait_pushes(t, qt)]
    ELSE LET x == CHOOSE x \in wait_pops(t) : TRUE
         IN  [t EXCEPT !.completed_pops =
                           SubSeq(@, 1, x.index - 1) \o SubSeq(@, x.index + 1, Len(@)),
                       !.filled[x.memory] = [data |-> 0, len |-> 0]]

\* The condition under which poll_task schedules the recv coroutine.
poll_task_recv(t, w) == remaining_receive_windows(t) < LowWater(w)

\* poll_task after its poll of the push coroutine: the recv coroutine when the receive
\* window is below the low-water mark, then the completion coroutine.
poll_task_rest(t, w) ==
    completions_coroutine(
        IF poll_task_recv(t, w) THEN recv_buffers_coroutine(t, w) ELSE t)

\* Executor::poll_task. A poll of the push coroutine that is cut at "adopt" leaves the
\* rest of poll_task to be done when that poll goes on.
poll_task(t, w) ==
    LET pushed == push_coroutine(t)
    IN  IF pushed.push_state = "adopt" THEN pushed ELSE poll_task_rest(pushed, w)

\* ------------------------------------------------------------- the calling program
\* A user that will issue sc.budget push calls and, when sc.pops, pops what it is sent.
NewApp(sc) ==
    [held |-> {}, tokens |-> {}, pop_tokens |-> 0, pushes |-> 0,
     budget |-> sc.budget, pops |-> sc.pops,
     pc |-> "idle", qt |-> NoToken, issued |-> <<>>, popped |-> <<>>]

User(budget, pops) == [budget |-> budget, pops |-> pops]

\* What the two users are going to do: A sends a burst that B pops; each sends the
\* other one message and pops the one it is sent; A sends two messages and B pops them
\* and sends one that A leaves alone; A sends a burst and pops the one message B
\* sends, and B pops nothing.
Scenarios ==
    {[A |-> User(MaxPush, FALSE), B |-> User(0, TRUE)],
     [A |-> User(1, TRUE), B |-> User(1, TRUE)],
     [A |-> User(2, FALSE), B |-> User(1, TRUE)],
     [A |-> User(MaxPush, TRUE), B |-> User(1, FALSE)]}

\* The number of bytes of a user's i-th message: one byte, two bytes, one byte, ...
LenOf(i) == IF i % 2 = 1 THEN 1 ELSE 2

Init ==
    /\ WINDOW_SIZE \in WindowSizes
    /\ tasks = [e \in Endpoints |-> NewTask(WINDOW_SIZE)]
    /\ \E sc \in Scenarios : app = [e \in Endpoints |-> NewApp(sc[e])]

\* A panic ends the process of its endpoint and with it the connection.
Running == \A e \in Endpoints : tasks[e].panicked = NoPanic

\* The connection of e exists and no poll of it is cut.
Alive(e) ==
    /\ Running
    /\ tasks[e].connected
    /\ tasks[e].push_state # "adopt"

Idle(e) == Alive(e) /\ app[e].pc = "idle"

\* connect / accept returns: IoQueue::connect, IoQueue::accept.
AddNewConnection(e) ==
    /\ Running
    /\ ~tasks[e].connected
    /\ tasks' = [tasks EXCEPT ![e] = add_new_connection(@, WINDOW_SIZE)]
    /\ UNCHANGED <<WINDOW_SIZE, app>>

\* IoQueue::malloc
MallocCall(e) ==
    /\ Idle(e)
    /\ tasks' = [tasks EXCEPT ![e] = malloc(@)]
    /\ app' = [app EXCEPT ![e].held =
                   IF tasks[e].memory_pool = <<>> THEN @
                   ELSE @ \cup {Head(tasks[e].memory_pool)}]
    /\ UNCHANGED WINDOW_SIZE

\* The user calls IoQueue::malloc for a message it is going to push.
Malloc(e) ==
    /\ Cardinality(app[e].held) < MaxHeld
    /\ app[e].pushes < app[e].budget
    /\ MallocCall(e)

\* IoQueue::free
Free(e) ==
    /\ Idle(e)
    /\ \E b \in app[e].held :
         /\ tasks' = [tasks EXCEPT ![e] = free(@, b)]
         /\ app' = [app EXCEPT ![e].held = @ \ {b}]
    /\ UNCHANGED WINDOW_SIZE

\* The user writes the bytes of its next message into a held buffer
\* (memory.as_mut_slice(n)) and calls IoQueue::push with it.
Push(e) ==
    /\ Idle(e)
    /\ app[e].pushes < app[e].budget
    /\ \E b \in app[e].held :
         LET data == app[e].pushes + 1
             n == LenOf(data)
             written == [tasks[e] EXCEPT !.mem[b] = data, !.len[b] = n]
         IN  /\ tasks' = [tasks EXCEPT ![e] = push(written, b)]
             /\ app' = [app EXCEPT
                          ![e].held = @ \ {b},
                          ![e].pushes = @ + 1,
                          ![e].issued = Append(@, push_work_id(written)),
                          ![e].tokens = @ \cup {[work_id |-> push_work_id(written),
                                                 memory |-> b, data |-> data,
                                                 len |-> n]}]
    /\ UNCHANGED WINDOW_SIZE

\* IoQueue::pop: a token, and nothing else.
Pop(e) ==
    /\ Idle(e)
    /\ app[e].pop_tokens < MaxPopTokens
    /\ app[e].pops
    /\ app' = [app EXCEPT ![e].pop_tokens = @ + 1]
    /\ tasks' = [tasks EXCEPT ![e] = pop(@, WINDOW_SIZE)]
    /\ UNCHANGED WINDOW_SIZE

\* The tokens the user of e can pass to IoQueue::wait.
Tokens(e) ==
    {PushToken(x.work_id) : x \in app[e].tokens}
        \cup (IF app[e].pop_tokens > 0 THEN {PopToken} ELSE {})

\* The calling program when IoQueue::wait(qt) returns the buffer `memory` of task t.
Returned(a, qt, t, memory) ==
    [a EXCEPT !.pc = "idle", !.qt = NoToken,
              !.held = @ \cup {memory},
              !.tokens = IF qt.op = "Push"
                         THEN {x \in @ : x.work_id # qt.work_id} ELSE @,
              !.pop_tokens = IF qt.op = "Pop" THEN @ - 1 ELSE @,
              !.popped = IF qt.op = "Pop" THEN Append(@, t.mem[memory]) ELSE @]

\* (A turn of the loop that polls the coroutines before it looks at the store.)
WaitLoopPollsFirst(e, qt) ==
    LET task == poll_task(completions_coroutine(tasks[e]), WINDOW_SIZE)
    IN  IF task.panicked = NoPanic /\ task.push_state # "adopt" /\ wait_found(task, qt)
        THEN /\ tasks' = [tasks EXCEPT ![e] = wait(task, qt)]
             /\ app' = [app EXCEPT ![e] = Returned(@, qt, task, wait_memory(task, qt))]
        ELSE /\ tasks' = [tasks EXCEPT ![e] = task]
             /\ app' = [app EXCEPT ![e].qt = qt,
                                   ![e].pc = IF task.push_state = "adopt"
                                             THEN "poll_task" ELSE "wait"]

\* One turn of the loop of IoQueue::wait(qt): executor.wait(qt); when that is None,
\* executor.poll_completion_coroutine(qt) (schedule the completion coroutine, then
\* executor.wait(qt) again); when that is None too, executor.poll_coroutines(qt).
WaitLoop(e, qt) ==
    LET t == tasks[e]
        polled == completions_coroutine(t)
        task == poll_task(polled, WINDOW_SIZE)
    IN  IF wait_found(t, qt)
        THEN /\ tasks' = [tasks EXCEPT ![e] = wait(t, qt)]
             /\ app' = [app EXCEPT ![e] = Returned(@, qt, t, wait_memory(t, qt))]
        ELSE IF polled.panicked = NoPanic /\ wait_found(polled, qt)
        THEN /\ tasks' = [tasks EXCEPT ![e] = wait(polled, qt)]
             /\ app' = [app EXCEPT ![e] =
                           Returned(@, qt, polled, wait_memory(polled, qt))]
        ELSE /\ tasks' = [tasks EXCEPT ![e] = task]
             /\ app' = [app EXCEPT ![e].qt = qt,
                                   ![e].pc = IF task.push_state = "adopt"
                                             THEN "poll_task" ELSE "wait"]

\* The user calls IoQueue::wait with one of its tokens, or a call in progress takes
\* another turn of its loop.
Wait(e) ==
    /\ Alive(e)
    /\ \/ /\ app[e].pc = "idle"
          /\ \E qt \in Tokens(e) : WaitLoop(e, qt)
       \/ /\ app[e].pc = "wait"
          /\ WaitLoop(e, app[e].qt)
    /\ UNCHANGED WINDOW_SIZE

\* A poll of the push coroutine that was cut after reading a grant goes on: it stores
\* and acknowledges the grant and runs until the coroutine is Pending; inside
\* poll_task the rest of poll_task follows.
PushResume(e) ==
    /\ Running
    /\ tasks[e].push_state = "adopt"
    /\ tasks' = [tasks EXCEPT ![e] =
                    IF app[e].pc = "poll_task"
                    THEN poll_task_rest(push_coroutine(@), WINDOW_SIZE)
                    ELSE push_coroutine(@)]
    /\ app' = [app EXCEPT ![e].pc = IF @ = "poll_task" THEN "wait" ELSE @]
    /\ UNCHANGED WINDOW_SIZE

\* ------------------------------------------------------------- the adapter
Completion(wr_id, status, opcode, byte_len) ==
    [wr_id |-> wr_id, status |-> status, opcode |-> opcode, byte_len |-> byte_len]

\* The adapter of e executes the work request at the head of e's send queue. A send
\* consumes the receive at the head of the peer's receive queue, places the buffer's
\* bytes there and completes on both sides; with no receive posted it completes in
\* error. A one-sided write stores its value in the peer's cell.
Deliver(e) ==
    /\ Running
    /\ tasks[e].sq # <<>>
    /\ LET p == Peer(e)
           s == tasks[e]
           r == tasks[p]
           wr == Head(s.sq)
       IN  IF wr.op = "send" /\ r.rq = <<>>
           THEN tasks' = [tasks EXCEPT
                    ![e].sq = Tail(@),
                    ![e].cq = Append(@, Completion(wr.work_id, "error", "SEND", 0))]
           ELSE IF wr.op = "send"
           THEN LET recv == Head(r.rq)
                IN  tasks' = [tasks EXCEPT
                        ![e].sq = Tail(@),
                        ![e].cq = Append(@, Completion(wr.work_id, "success", "SEND", 0)),
                        ![e].wire = Append(@, s.mem[wr.memory]),
                        ![p].rq = Tail(@),
                        ![p].mem[recv.memory] = s.mem[wr.memory],
                        ![p].filled[recv.memory] = [data |-> s.mem[wr.memory],
                                                    len |-> s.len[wr.memory]],
                        ![p].cq = Append(@, Completion(recv.work_id, "success", "RECV",
                                                       s.len[wr.memory]))]
           ELSE tasks' = [tasks EXCEPT
                    ![e].sq = Tail(@),
                    ![e].cq = Append(@, Completion(wr.work_id, "success", "RDMA_WRITE", 0)),
                    ![p].our_recv_window = wr.value]
    /\ UNCHANGED <<WINDOW_SIZE, app>>

Next ==
    \E e \in Endpoints :
        \/ AddNewConnection(e)
        \/ Malloc(e)
        \/ Free(e)
        \/ Push(e)
        \/ Pop(e)
        \/ Wait(e)
        \/ PushResume(e)
        \/ Deliver(e)

Spec == Init /\ [][Next]_vars

\* A sends two messages and B pops them.
LiveInit ==
    /\ WINDOW_SIZE \in WindowSizes
    /\ tasks = [e \in Endpoints |-> NewTask(WINDOW_SIZE)]
    /\ app = [A |-> NewApp(User(2, FALSE)), B |-> NewApp(User(0, TRUE))]

\* Both connections get set up, the adapter executes what is posted, a user that can
\* call wait does and the loop of IoQueue::wait keeps turning (lib.rs:138-148), a cut
\* poll goes on, and a user that can pop or free does.
Fairness ==
    \A e \in Endpoints :
        /\ WF_vars(AddNewConnection(e))
        /\ WF_vars(Deliver(e))
        /\ WF_vars(Wait(e))
        /\ WF_vars(PushResume(e))
        /\ WF_vars(Pop(e))
        /\ WF_vars(Free(e))

LiveSpec == LiveInit /\ [][Next]_vars /\ Fairness

\* The values of WINDOW_SIZE for users that only call malloc and free.
PoolWindowSizes == {1, 2, 4}

PoolInit ==
    /\ WINDOW_SIZE \in PoolWindowSizes
    /\ tasks = [e \in Endpoints |-> NewTask(WINDOW_SIZE)]
    /\ app = [e \in Endpoints |-> NewApp(User(0, FALSE))]

\* Two users that connect and then call malloc and free as they like.
PoolNext ==
    \E e \in Endpoints :
        \/ AddNewConnection(e)
        \/ MallocCall(e)
        \/ Free(e)

PoolSpec == PoolInit /\ [][PoolNext]_vars

\* A window of four: A sends a burst that B pops, and both keep the buffers that wait
\* hands them.
WideInit ==
    /\ WINDOW_SIZE = 4
    /\ tasks = [e \in Endpoints |-> NewTask(WINDOW_SIZE)]
    /\ app = [A |-> NewApp(User(MaxPush, FALSE)), B |-> NewApp(User(0, TRUE))]

WideNext ==
    \E e \in Endpoints :
        \/ AddNewConnection(e)
        \/ Malloc(e)
        \/ Push(e)
        \/ Pop(e)
        \/ Wait(e)
        \/ PushResume(e)
        \/ Deliver(e)

WideSpec == WideInit /\ [][WideNext]_vars

\* ------------------------------------------------------------- one IoQueue, two connections
\* Here A and B are two connections of one IoQueue (the entries of Executor::tasks),
\* each to a remote peer of its own, and L is a descriptor that was never connected.
\* app[c] is what the one calling program holds of connection c, app.io the call to
\* IoQueue it is in.
Descriptors == Endpoints \cup {"L"}

NoHandle == "None"

\* (A descriptor whose missing handle counts as the handle of the first task.)
scheduler_handle_or_first(ts, qd) ==
    IF qd \in Endpoints /\ ts[qd].connected THEN qd ELSE "A"

\* qd.scheduler_handle: None from socket(), Some(handle) once connect or accept has
\* added the connection to the executor.
scheduler_handle(ts, qd) ==
    IF qd \in Endpoints /\ ts[qd].connected THEN qd ELSE NoHandle

\* A whole poll of the push coroutine, with no write of the peer landing inside it.
push_coroutine_whole(t) ==
    LET pushed == push_coroutine(t)
    IN  IF pushed.push_state = "adopt" THEN push_coroutine(pushed) ELSE pushed

poll_task_whole(t, w) == poll_task_rest(push_coroutine_whole(t), w)

\* The panic of IoQueue::malloc / free / push / pop on a descriptor without handle.
MissingHandle(op) ==
    CASE op \in {"malloc", "free"} -> "Missing executor handle."
      [] op = "push" -> "Passed queue descriptor has no scheduler associated wit it!"
      [] OTHER -> "called Option::unwrap() on a None value"

\* IoQueue::malloc / free / push / pop on descriptor qd: the tasks after the call and
\* the panic it ends in, if any.
IoQueueCall(ts, qd, op, memory) ==
    LET handle == scheduler_handle(ts, qd)
    IN  IF handle = NoHandle
        THEN [tasks |-> ts, panicked |-> MissingHandle(op)]
        ELSE [tasks |-> [ts EXCEPT ![handle] =
                            CASE op = "malloc" -> malloc(@)
                              [] op = "free" -> free(@, memory)
                              [] op = "push" -> push_coroutine_whole(push(@, memory))
                              [] OTHER -> @],
              panicked |-> NoPanic]

\* (A poll_coroutines that polls the tasks of all connections.)
poll_coroutines_all(ts, qt, w) ==
    [c \in DOMAIN ts |-> IF ts[c].connected THEN poll_task_whole(ts[c], w) ELSE ts[c]]

\* Executor::poll_coroutines(qt): poll_task on the task of qt.
poll_coroutines(ts, qt, w) ==
    [ts EXCEPT ![qt.task_id] = poll_task_whole(@, w)]

\* Executor::poll_all_tasks: poll_task on every task, in the order of Executor::tasks;
\* a panic ends the loop.
poll_all_tasks(ts, w) ==
    LET first == IF ts["A"].connected THEN poll_task_whole(ts["A"], w) ELSE ts["A"]
    IN  [ts EXCEPT !["A"] = first,
                   !["B"] = IF @.connected /\ first.panicked = NoPanic
                            THEN poll_task_whole(@, w) ELSE @]

\* Executor::poll_completion_coroutine(qt), before its call of wait.
poll_completion_coroutine(ts, qt) ==
    [ts EXCEPT ![qt.task_id] = completions_coroutine(@)]

\* Executor::wait(qt) is Some.
executor_wait_found(ts, qt) == wait_found(ts[qt.task_id], qt)

\* (A scan that tries every pop token.)
RECURSIVE wait_any_scan_every(_, _, _, _)
wait_any_scan_every(ts, qts, i, pops_checked) ==
    IF i > Len(qts) THEN 0
    ELSE IF executor_wait_found(ts, qts[i]) THEN i
    ELSE wait_any_scan_every(ts, qts, i + 1, pops_checked)

\* The for loop of IoQueue::wait_any from token i on: the index of the token it returns
\* for, 0 when it falls through to poll_all_tasks.
RECURSIVE wait_any_scan(_, _, _, _)
wait_any_scan(ts, qts, i, pops_checked) ==
    IF i > Len(qts) THEN 0
    ELSE IF qts[i].op = "Push"
    THEN IF executor_wait_found(ts, qts[i]) THEN i
         ELSE wait_any_scan(ts, qts, i + 1, pops_checked)
    ELSE IF pops_checked THEN wait_any_scan(ts, qts, i + 1, TRUE)
    ELSE IF executor_wait_found(ts, qts[i]) THEN i
    ELSE wait_any_scan(ts, qts, i + 1, TRUE)

\* The calling program's call to IoQueue: the tokens of a wait_any in progress, the
\* index the last wait_any returned, the panic of a call on a descriptor without
\* handle, and whether such a call was made.
NewIo == [pc |-> "idle", qts |-> <<>>, index |-> 0, panicked |-> NoPanic, misuse |-> FALSE]

ExecInit ==
    /\ WINDOW_SIZE \in WindowSizes
    /\ tasks = [e \in Endpoints |-> NewTask(WINDOW_SIZE)]
    /\ app = [A |-> NewApp(User(0, TRUE)), B |-> NewApp(User(1, TRUE)), io |-> NewIo]

ExecRunning == Running /\ app.io.panicked = NoPanic

\* The calling program is in no call and no poll is cut.
ExecIdle ==
    /\ ExecRunning
    /\ app.io.pc = "idle"
    /\ \A c \in Endpoints : app[c].pc = "idle" /\ tasks[c].push_state # "adopt"

\* The grant the remote peer of a connection writes for its first window of receives.
RemoteGrant(w) == IF LowWater(w) > 0 THEN w ELSE 0

\* IoQueue::connect / accept for the descriptor of c; Executor::tasks gets A first. The
\* remote peer's first grant is in the cell of c when the call returns.
Connect(c) ==
    /\ ExecIdle
    /\ c = "B" => tasks["A"].connected
    /\ ~tasks[c].connected
    /\ tasks' = [tasks EXCEPT ![c] =
                    [add_new_connection(@, WINDOW_SIZE)
                        EXCEPT !.our_recv_window = RemoteGrant(WINDOW_SIZE)]]
    /\ UNCHANGED <<WINDOW_SIZE, app>>

\* malloc, free, push and pop on the descriptor of a connection.
ExecUser(c) ==
    /\ ExecIdle
    /\ \/ Malloc(c)
       \/ Free(c)
       \/ Push(c)
       \/ Pop(c)

ExecResume(c) == ExecRunning /\ PushResume(c)

\* malloc, free, push or pop with a descriptor that has no handle: the listening
\* descriptor, or the descriptor of a connection before connect. free and push get a
\* buffer the program holds. (The program does so before it has pushed or popped.)
Misuse(qd, op) ==
    /\ ExecIdle
    /\ \A c \in Endpoints : Tokens(c) = {} /\ app[c].pushes = 0 /\ app[c].popped = <<>>
    /\ qd \in Endpoints => ~tasks[qd].connected
    /\ \E c \in Endpoints : \E memory \in app[c].held \cup {0} :
         /\ (memory = 0) = (op \in {"malloc", "pop"})
         /\ LET called == IoQueueCall(tasks, qd, op, memory)
            IN  /\ tasks' = called.tasks
                /\ app' = [app EXCEPT !.io.panicked = called.panicked,
                                      !.io.misuse = TRUE]
    /\ UNCHANGED WINDOW_SIZE

\* The token of connection c as Executor sees it.
QueueToken(c, qt) == [task_id |-> c, op |-> qt.op, work_id |-> qt.work_id]

\* One turn of the loop of IoQueue::wait on a token of connection c.
ExecWaitLoop(c, qt) ==
    LET q == QueueToken(c, qt)
        polled == poll_completion_coroutine(tasks, q)
    IN  IF executor_wait_found(tasks, q)
        THEN /\ tasks' = [tasks EXCEPT ![c] = wait(@, qt)]
             /\ app' = [app EXCEPT ![c] =
                           Returned(@, qt, tasks[c], wait_memory(tasks[c], qt))]
        ELSE IF polled[c].panicked = NoPanic /\ executor_wait_found(polled, q)
        THEN /\ tasks' = [polled EXCEPT ![c] = wait(@, qt)]
             /\ app' = [app EXCEPT ![c] =
                           Returned(@, qt, polled[c], wait_memory(polled[c], qt))]
        ELSE /\ tasks' = poll_coroutines(polled, q, WINDOW_SIZE)
             /\ app' = [app EXCEPT ![c].qt = qt, ![c].pc = "wait"]

ExecWait(c) ==
    /\ ExecRunning
    /\ tasks[c].connected
    /\ app.io.pc = "idle"
    /\ app[Peer(c)].pc = "idle"
    /\ \A d \in Endpoints : tasks[d].push_state # "adopt"
    /\ \/ /\ app[c].pc = "idle"
          /\ \E qt \in Tokens(c) : ExecWaitLoop(c, qt)
       \/ /\ app[c].pc = "wait"
          /\ ExecWaitLoop(c, app[c].qt)
    /\ UNCHANGED WINDOW_SIZE

\* The tokens the program holds, of both connections.
AllTokens == UNION {{QueueToken(c, qt) : qt \in Tokens(c)} : c \in Endpoints}

\* The sequences of the elements of S, each once.
Arrangements(S) ==
    {f \in [1..Cardinality(S) -> S] : \A i, j \in 1..Cardinality(S) : i # j => f[i] # f[j]}

\* The program calls IoQueue::wait_any with its tokens in some order.
WaitAnyCall ==
    /\ ExecIdle
    /\ AllTokens # {}
    /\ \E qts \in Arrangements(AllTokens) :
         app' = [app EXCEPT !.io.pc = "wait_any", !.io.qts = qts]
    /\ UNCHANGED <<WINDOW_SIZE, tasks>>

\* One turn of the loop of IoQueue::wait_any: the scan of the tokens, then either the
\* return for the token found or poll_all_tasks.
WaitAnyLoop ==
    /\ ExecRunning
    /\ app.io.pc = "wait_any"
    /\ LET qts == app.io.qts
           i == wait_any_scan(tasks, qts, 1, FALSE)
       IN  IF i > 0
           THEN LET c == qts[i].task_id
                    qt == [op |-> qts[i].op, work_id |-> qts[i].work_id]
                IN  /\ tasks' = [tasks EXCEPT ![c] = wait(@, qt)]
                    /\ app' = [app EXCEPT
                           ![c] = Returned(@, qt, tasks[c], wait_memory(tasks[c], qt)),
                           !.io.pc = "idle", !.io.qts = <<>>, !.io.index = i]
           ELSE /\ tasks' = poll_all_tasks(tasks, WINDOW_SIZE)
                /\ UNCHANGED app
    /\ UNCHANGED WINDOW_SIZE

\* The adapter of c executes the work request at the head of c's send queue: a send
\* completes when the remote peer has a receive for it and in error when it has none
\* or is gone; a one-sided write completes.
Complete(c) ==
    /\ ExecRunning
    /\ tasks[c].sq # <<>>
    /\ LET wr == Head(tasks[c].sq)
       IN  \E status \in IF wr.op = "send" THEN {"success", "error"} ELSE {"success"} :
             tasks' = [tasks EXCEPT
                 ![c].sq = Tail(@),
                 ![c].cq = Append(@, Completion(wr.work_id, status,
                               IF wr.op = "send" THEN "SEND" ELSE "RDMA_WRITE", 0))]
    /\ UNCHANGED <<WINDOW_SIZE, app>>

\* A message of the remote peer of c arrives: it consumes the receive at the head of
\* c's receive queue. The remote peer sends one message.
Arrive(c) ==
    /\ ExecRunning
    /\ tasks[c].rq # <<>>
    /\ Len(tasks[c].rq) = tasks[c].posted_recvs
    /\ LET recv == Head(tasks[c].rq)
           data == tasks[c].posted_recvs - Len(tasks[c].rq) + 1
       IN  tasks' = [tasks EXCEPT
               ![c].rq = Tail(@),
               ![c].mem[recv.memory] = data,
               ![c].filled[recv.memory] = [data |-> data, len |-> LenOf(data)],
               ![c].cq = Append(@, Completion(recv.work_id, "success", "RECV",
                                              LenOf(data)))]
    /\ UNCHANGED <<WINDOW_SIZE, app>>

ExecNext ==
    \/ \E c \in Endpoints :
          \/ Connect(c)
          \/ ExecUser(c)
          \/ ExecResume(c)
          \/ ExecWait(c)
          \/ Complete(c)
          \/ Arrive(c)
    \/ \E qd \in Descriptors : \E op \in {"malloc", "free", "push", "pop"} :
          Misuse(qd, op)
    \/ WaitAnyCall
    \/ WaitAnyLoop

ExecSpec == ExecInit /\ [][ExecNext]_vars


\* ------------------------------------------------------------- an event storm
\* Two connections that are set up and then only polled, while the adapter reports
\* completions of one-sided writes faster than they are drained.
BatchInit ==
    /\ WINDOW_SIZE \in WindowSizes
    /\ tasks = [e \in Endpoints |-> add_new_connection(NewTask(WINDOW_SIZE), WINDOW_SIZE)]
    /\ app = [e \in Endpoints |-> NewApp(User(0, FALSE))]

\* The adapter of e reports one more completion.
Storm(e) ==
    /\ Running
    /\ Len(tasks[e].cq) <= MaxBatches * CQ_ELEMENTS
    /\ tasks' = [tasks EXCEPT ![e].cq = Append(@, Completion(0, "success", "RDMA_WRITE", 0))]
    /\ UNCHANGED <<WINDOW_SIZE, app>>

\* Self::schedule(&mut task.completions_coroutine)
PollCompletions(e) ==
    /\ Running
    /\ tasks' = [tasks EXCEPT ![e] = completions_coroutine(@)]
    /\ UNCHANGED <<WINDOW_SIZE, app>>

BatchNext == \E e \in Endpoints : Storm(e) \/ PollCompletions(e)

BatchSpec == BatchInit /\ [][BatchNext]_vars


\* ------------------------------------------------------------- copied tokens
\* QueueToken is Copy: a program can keep a copy of a token and pass it to
\* IoQueue::wait after a wait on it has returned. A sends two messages that B pops,
\* and both keep the buffers that wait hands them.
CopyInit ==
    /\ WINDOW_SIZE = 2
    /\ tasks = [e \in Endpoints |-> NewTask(WINDOW_SIZE)]
    /\ app = [A |-> NewApp(User(2, FALSE)), B |-> NewApp(User(0, TRUE))]

\* The copies the user of e has of tokens a wait has returned for.
Copies(e) ==
    {PushToken(id) : id \in Range(app[e].issued) \ {x.work_id : x \in app[e].tokens}}
        \cup (IF app[e].popped # <<>> THEN {PopToken} ELSE {})

\* The user calls IoQueue::wait with such a copy: the first turn of the loop. (With
\* the copy of a Pop token it does so when a completed pop is there to return.)
WaitCopy(e) ==
    /\ Idle(e)
    /\ \E qt \in Copies(e) :
         LET t == tasks[e]
             drained == completions_coroutine(t)
             from == IF wait_found(t, qt) THEN t ELSE drained
             task == poll_task(drained, WINDOW_SIZE)
         IN  IF wait_found(t, qt) \/ (drained.panicked = NoPanic /\ wait_found(drained, qt))
             THEN /\ tasks' = [tasks EXCEPT ![e] = wait(from, qt)]
                  /\ app' = [app EXCEPT
                         ![e].held = @ \cup {wait_memory(from, qt)},
                         ![e].popped = IF qt.op = "Pop"
                                       THEN Append(@, from.mem[wait_memory(from, qt)])
                                       ELSE @]
             ELSE /\ qt.op = "Push"
                  /\ tasks' = [tasks EXCEPT ![e] = task]
                  /\ app' = [app EXCEPT ![e].qt = qt,
                                        ![e].pc = IF task.push_state = "adopt"
                                                  THEN "poll_task" ELSE "wait"]
    /\ UNCHANGED WINDOW_SIZE

CopyNext ==
    \E e \in Endpoints :
        \/ AddNewConnection(e)
        \/ Malloc(e)
        \/ Push(e)
        \/ Pop(e)
        \/ Wait(e)
        \/ PushResume(e)
        \/ Deliver(e)
        \/ WaitCopy(e)

CopySpec == CopyInit /\ [][CopyNext]_vars

\* ------------------------------------------------------------- teardown
\* The drop of one ConnectionTask, as Rust orders it: the fields of the struct in the
\* order of their declaration, the variables of a suspended coroutine in the reverse
\* of theirs and its parameters after them, a shared value (Rc, a clone of the queue
\* pair, an end of the channel) with its last holder. app.drop is the drop in
\* progress: the connection, what is still to drop, the holders left of each shared
\* value, and what has been released so far.
ConnectionTaskFields ==
    <<"memory_pool", "recv_buffers_coroutine", "push_coroutine", "push_work",
      "completed_pops", "completed_pushes", "work_id_counter", "control_flow",
      "completions_coroutine", "_protection_domain">>

\* The holders of each shared value once add_new_connection has returned: the task,
\* the coroutines (a coroutine with its stream counts once) and, for the queue pair,
\* the control-flow state.
Holders ==
    [memory_pool |-> 2, processed_requests |-> 3, completed_pops |-> 2,
     completed_pushes |-> 2, work_id_counter |-> 2, control_flow |-> 4,
     queue_pair |-> 3, push_work |-> 2]

\* (completions_coroutine without `let control_flow = control_flow;`: the completion
\* queue, a variable, goes before the parameters.)
completions_coroutine_drop_unbound ==
    <<"cq", "processed_requests", "completed_pops", "completed_pushes", "control_flow">>

\* What a suspended completions_coroutine drops, in order: control_flow, rebound as
\* the last variable, the event stream with the completion queue, the parameters.
completions_coroutine_drop ==
    <<"control_flow", "cq", "processed_requests", "completed_pops", "completed_pushes">>

\* What a suspended recv_buffers_coroutine drops, in order.
recv_buffers_coroutine_drop ==
    <<"receive_buffers", "work_id_counter", "processed_requests", "memory_pool",
      "control_flow", "queue_pair">>

\* What a suspended push_coroutine drops, in order.
push_coroutine_drop ==
    <<"work_requests", "processed_requests", "control_flow", "push_work", "queue_pair">>

\* The buffers connection task t keeps in the store of that name.
Stored(t, name) ==
    CASE name = "memory_pool" -> Len(t.memory_pool)
      [] name = "receive_buffers" -> Len(t.receive_buffers)
      [] name = "work_requests" -> Len(t.work_requests)
      [] name = "push_work" -> Len(t.push_work)
      [] name = "processed_requests" -> Cardinality(t.processed_requests)
      [] name = "completed_pops" -> Len(t.completed_pops)
      [] name = "completed_pushes" -> Cardinality(t.completed_pushes)
      [] OTHER -> 0

NewDrop == [of |-> "none", stack |-> <<>>, holders |-> Holders, released |-> <<>>]

\* The drop of the value itself: a store releases its buffers if it has any, the
\* control-flow state drops its clone of the queue pair.
drop_value(d, t, name) ==
    IF name = "control_flow" THEN [d EXCEPT !.stack = <<"queue_pair">> \o @]
    ELSE IF name \in {"queue_pair", "cq", "_protection_domain"} \/ Stored(t, name) > 0
    THEN [d EXCEPT !.released = Append(@, name)]
    ELSE d

\* The drop of the item at the head of d.stack.
drop_in_place(d, t) ==
    LET item == Head(d.stack)
        rest == [d EXCEPT !.stack = Tail(@)]
    IN  IF item = "recv_buffers_coroutine"
        THEN [rest EXCEPT !.stack = recv_buffers_coroutine_drop \o @]
        ELSE IF item = "push_coroutine"
        THEN [rest EXCEPT !.stack = push_coroutine_drop \o @]
        ELSE IF item = "completions_coroutine"
        THEN [rest EXCEPT !.stack = completions_coroutine_drop \o @]
        ELSE IF item \in DOMAIN Holders
        THEN LET left == [rest EXCEPT !.holders[item] = @ - 1]
             IN  IF left.holders[item] = 0 THEN drop_value(left, t, item) ELSE left
        ELSE drop_value(rest, t, item)

\* A sends two messages and B pops them; no drop is in progress.
DropInit ==
    /\ WINDOW_SIZE = 2
    /\ tasks = [e \in Endpoints |-> NewTask(WINDOW_SIZE)]
    /\ app = [A |-> NewApp(User(2, FALSE)), B |-> NewApp(User(0, TRUE)), drop |-> NewDrop]

\* The completion pipeline of e has run: it has handled a completion.
Resumed(e) ==
    \/ app[e].popped # <<>>
    \/ tasks[e].completed_pops # <<>>
    \/ tasks[e].completed_pushes # {}
    \/ app[e].pushes > Cardinality(app[e].tokens)

\* The program goes on before it drops a connection.
DropRun == app.drop.of = "none" /\ Next

\* The program drops the connection task of e once its completion pipeline has run.
Teardown(e) ==
    /\ app.drop.of = "none"
    /\ Idle(e)
    /\ Resumed(e)
    /\ app' = [app EXCEPT !.drop.of = e, !.drop.stack = ConnectionTaskFields]
    /\ UNCHANGED <<WINDOW_SIZE, tasks>>

\* The drop goes on with the next item.
DropStep ==
    /\ app.drop.of # "none"
    /\ app.drop.stack # <<>>
    /\ app' = [app EXCEPT !.drop = drop_in_place(@, tasks[app.drop.of])]
    /\ UNCHANGED <<WINDOW_SIZE, tasks>>

DropNext ==
    \/ DropRun
    \/ \E e \in Endpoints : Teardown(e)
    \/ DropStep

DropSpec == DropInit /\ [][DropNext]_vars


\* ------------------------------------------------------------- properties
\* The connection of e is set up and its process has not panicked.
Up(e) == tasks[e].connected /\ tasks[e].panicked = NoPanic

Count(s, b) == Cardinality({i \in 1..Len(s) : s[i] = b})

Memories(s) == [i \in 1..Len(s) |-> s[i].memory]

WorkIds(s) == [i \in 1..Len(s) |-> s[i].work_id]

\* Requests the user has pushed that the push coroutine has not posted yet: those in
\* the channel and those the coroutine holds back.
Enqueued(e) == tasks[e].push_work \o tasks[e].work_requests

\* C1: the sends an endpoint has posted never outnumber the receives its peer has
\* posted, whatever the interleaving of polls, deliveries and grant writes.
C1_SendsWithinPeerReceives ==
    \A e \in Endpoints : Len(tasks[e].posted_sends) <= tasks[Peer(e)].posted_recvs

\* A has used a second grant: three sends against the peer's four receives.
C1_Witness ==
    /\ WINDOW_SIZE = 2
    /\ Len(tasks["A"].posted_sends) = 3
    /\ tasks["B"].posted_recvs = 4

\* The credit the push coroutine posts against in the step at hand: the grant it has
\* just read, or its local count.
CreditsBefore(e) ==
    IF tasks[e].push_state = "adopt" THEN tasks[e].available_windows
    ELSE tasks[e].remaining_send_window

\* C2: the send-credit count never goes below zero, and every batch the push coroutine
\* posts has n = min(pending requests, available credits) entries, 1 <= n <= the
\* credits read before posting, and reduces the count by exactly n.
C2_BatchWithinCredits ==
    [][\A e \in Endpoints :
        LET n == Len(tasks'[e].posted_sends) - Len(tasks[e].posted_sends)
            pending == Len(Enqueued(e))
                           + (IF app'[e].pushes > app[e].pushes THEN 1 ELSE 0)
        IN  /\ tasks'[e].remaining_send_window >= 0
            /\ tasks'[e].panicked # "attempt to subtract with overflow"
            /\ n > 0 => /\ CreditsBefore(e) >= 1
                        /\ n <= CreditsBefore(e)
                        /\ n = min(pending, CreditsBefore(e))
                        /\ tasks'[e].remaining_send_window = CreditsBefore(e) - n]_vars

\* A batch cut short by the credit: two posted, none left, a request held back.
C2_Witness ==
    /\ Len(tasks["A"].posted_sends) = 2
    /\ tasks["A"].remaining_send_window = 0
    /\ tasks["A"].work_requests # <<>>

\* C3 as stated: pool, pending map, completed pushes, completed pops and the buffers
\* the user holds add up to 2 * WINDOW_SIZE.
C3_SixPlacesAddUp ==
    \A e \in Endpoints :
        Up(e) => Len(tasks[e].memory_pool) + Cardinality(tasks[e].processed_requests)
                   + Cardinality(tasks[e].completed_pushes)
                   + Len(tasks[e].completed_pops)
                   + Cardinality(app[e].held) = 2 * WINDOW_SIZE

\* C3, amended: together with the buffers of requests that are enqueued and not yet
\* posted, they add up to 2 * WINDOW_SIZE.
C3_BuffersConserved ==
    \A e \in Endpoints :
        Up(e) => Len(tasks[e].memory_pool) + Cardinality(tasks[e].processed_requests)
                   + Cardinality(tasks[e].completed_pushes)
                   + Len(tasks[e].completed_pops)
                   + Cardinality(app[e].held)
                   + Len(Enqueued(e)) = 2 * WINDOW_SIZE

\* A push waits for credit while others are posted, completed and handed back.
C3_Witness ==
    /\ Up("A")
    /\ tasks["A"].work_requests # <<>>
    /\ tasks["A"].processed_requests # {}
    /\ app["A"].held # {}

\* The places of a connection's pending map whose entry is a send / a receive.
SendPinned(e) ==
    {x \in tasks[e].processed_requests : x.work_id \in Range(tasks[e].posted_sends)}

RecvPinned(e) == tasks[e].processed_requests \ SendPinned(e)

\* In how many of the pool, the user's hands and the pending map buffer b is.
PinnedOrFree(e, b) ==
    Count(tasks[e].memory_pool, b)
        + (IF b \in app[e].held THEN 1 ELSE 0)
        + Cardinality({x \in SendPinned(e) : x.memory = b})
        + Cardinality({x \in RecvPinned(e) : x.memory = b})

\* In how many places of the engine buffer b is, the send channel, the held-back
\* requests and the completed stores included.
Occurrences(e, b) ==
    PinnedOrFree(e, b)
        + Count(Memories(Enqueued(e)), b)
        + Cardinality({x \in tasks[e].completed_pushes : x.memory = b})
        + Count(tasks[e].completed_pops, b)

\* C4 as stated: every buffer is in exactly one of the pool, the user's hands, an
\* outstanding send and an outstanding receive.
C4_FourPlaces ==
    \A e \in Endpoints :
        Up(e) => \A b \in Buffers(WINDOW_SIZE) : PinnedOrFree(e, b) = 1

\* C4, amended: every buffer is in exactly one of the pool, the user's hands, an
\* outstanding send, an outstanding receive, the requests enqueued and not yet posted,
\* the completed pushes and the completed pops.
C4_ExactlyOnePlace ==
    \A e \in Endpoints :
        Up(e) => \A b \in Buffers(WINDOW_SIZE) : Occurrences(e, b) = 1

\* Buffers in both completed stores of one endpoint, and one in the user's hands.
C4_Witness ==
    /\ Up("A")
    /\ tasks["A"].completed_pushes # {}
    /\ tasks["A"].completed_pops # <<>>
    /\ app["A"].held # {}

Distinct(s) == \A i, j \in 1..Len(s) : i # j => s[i] # s[j]

Increasing(s) == \A i, j \in 1..Len(s) : i < j => s[i] < s[j]

\* C5: the work ids push and the recv coroutine hand out are strictly increasing and
\* below the counter, no two operations in progress share one (sends and receives
\* together), and no "duplicate entry" assertion fires.
C5_WorkIdsUnique ==
    \A e \in Endpoints :
        LET waiting == WorkIds(Enqueued(e))
            pending == tasks[e].processed_requests
            done == tasks[e].completed_pushes
        IN  /\ tasks[e].panicked # "duplicate entry"
            /\ Distinct(waiting)
            /\ \A x, y \in pending \cup done : x.work_id = y.work_id => x = y
            /\ Range(waiting) \cap Keys(pending \cup done) = {}
            /\ \A k \in Range(waiting) \cup Keys(pending \cup done) :
                   k < tasks[e].work_id_counter
            /\ Increasing(app[e].issued)
            /\ Increasing(WorkIds(tasks[e].rq))

\* The pending map of B holds a send and a receive, after a refill between pushes.
C5_Witness ==
    /\ SendPinned("B") # {}
    /\ RecvPinned("B") # {}
    /\ tasks["B"].posted_recvs = 4

\* C6: when wait returns for a push token, the buffer handed back is the one that was
\* submitted with the push that made the token, with the bytes and length it had.
C6_PushReturnsItsBuffer ==
    [][\A e \in Endpoints :
        (app'[e].tokens # app[e].tokens /\ app'[e].tokens \subseteq app[e].tokens) =>
            LET tok == CHOOSE x \in app[e].tokens \ app'[e].tokens : TRUE
            IN  /\ tok.memory \notin app[e].held
                /\ app'[e].held = app[e].held \cup {tok.memory}
                /\ tasks'[e].mem[tok.memory] = tok.data
                /\ tasks'[e].len[tok.memory] = tok.len]_vars

\* The second push has been handed back while the first is still awaited.
C6_Witness ==
    /\ Len(app["A"].issued) >= 2
    /\ {x.work_id : x \in app["A"].tokens} = {app["A"].issued[1]}
    /\ \E b \in app["A"].held : tasks["A"].mem[b] = 2 /\ tasks["A"].len[b] = 2

\* C7: the messages successive waits on pop tokens have returned are the first
\* messages the peer's adapter sent, in that order.
C7_PopsInWireOrder ==
    \A e \in Endpoints :
        /\ Len(app[e].popped) <= Len(tasks[Peer(e)].wire)
        /\ \A i \in 1..Len(app[e].popped) : app[e].popped[i] = tasks[Peer(e)].wire[i]

\* C8: when wait returns for a pop token, the buffer handed back was filled by the
\* adapter through a posted receive and has the length of the send that filled it
\* (and holds that send's bytes).
C8_PopReturnsReceivedLength ==
    [][\A e \in Endpoints :
        Len(app'[e].popped) > Len(app[e].popped) =>
            /\ app'[e].held # app[e].held
            /\ LET b == CHOOSE b \in app'[e].held \ app[e].held : TRUE
               IN  /\ tasks[e].filled[b].len > 0
                   /\ tasks'[e].len[b] = tasks[e].filled[b].len
                   /\ tasks'[e].mem[b] = tasks[e].filled[b].data]_vars

\* B holds the popped two-byte second message of A.
C8_Witness ==
    /\ Len(app["B"].popped) > 0
    /\ \E b \in app["B"].held : tasks["B"].mem[b] = 2 /\ tasks["B"].len[b] = 2

Outstanding(e, i) == \E x \in app[e].tokens : x.data = i

\* C10: every push token issued is eventually handed back by wait, or the connection
\* is torn down: no push is left pending forever.
C10_PushEventuallyReturned ==
    \A e \in Endpoints : \A i \in 1..MaxPush :
        Outstanding(e, i) ~> (~Outstanding(e, i) \/ ~Running)

\* The user of e has not called wait so far.
NoWaitYet(e) ==
    /\ app[e].pc = "idle"
    /\ Cardinality(app[e].tokens) = Len(app[e].issued)
    /\ app[e].popped = <<>>

\* C11: a user can enqueue a burst of up to 4 * WINDOW_SIZE pushes before any wait and
\* push accepts them all, while the engine posts no more sends than the peer has
\* granted receives for.
C11_BurstAcceptedAndThrottled ==
    \A e \in Endpoints :
        /\ (NoWaitYet(e) /\ app[e].pushes < 4 * WINDOW_SIZE) =>
               tasks[e].panicked # "Out of memory!"
        /\ Len(tasks[e].posted_sends) <= tasks[Peer(e)].posted_recvs

\* C12: the refill posts new receives before the posted receives run out, and never
\* finds the pool empty.
C12_RefillBeforeStarvation ==
    \A e \in Endpoints :
        /\ tasks[e].panicked # "Memory pool is empty."
        /\ Up(e) => Len(tasks[e].rq) > 0

C13_MallocTwiceWindow ==
    \A e \in Endpoints :
        tasks[e].panicked = "Out of memory!" =>
            Cardinality(app[e].held) = 2 * WINDOW_SIZE

\* The values of the const generic RECV_WRS an IoQueue of window w may be built with:
\* room for one window of receives and more.
RecvWrs(w) == w..(2 * w)

\* C14: whatever RECV_WRS and WINDOW_SIZE are, the receives posted and not yet consumed
\* never outnumber RECV_WRS.
C14_PostedReceivesWithinRecvWrs ==
    \A e \in Endpoints : \A RECV_WRS \in RecvWrs(WINDOW_SIZE) :
        Len(tasks[e].rq) <= RECV_WRS


\* The lowest index of a token of qts whose operation is complete, 0 when none is.
LowestComplete(ts, qts) ==
    IF \E j \in 1..Len(qts) : executor_wait_found(ts, qts[j])
    THEN CHOOSE j \in 1..Len(qts) :
             /\ executor_wait_found(ts, qts[j])
             /\ \A k \in 1..(j - 1) : ~executor_wait_found(ts, qts[k])
    ELSE 0

\* C15: wait_any returns for the lowest-index token whose operation is complete when
\* the tokens are scanned, for any mix of push and pop tokens of any connections.
\* (Indices count from 1 here, from 0 in the source.)
C15_WaitAnyLowestIndex ==
    [][(app.io.pc = "wait_any" /\ app'.io.pc = "idle")
          => app'.io.index = LowestComplete(tasks, app.io.qts)]_vars


\* C18: a completion with error status or unknown opcode on one connection aborts
\* that connection only: the other connection of the same Executor stays operable,
\* so a program that holds a token of it can go on.
C18_FailStopPerConnection ==
    \A c \in Endpoints :
        (/\ tasks[c].panicked \in {"Completion queue event with error status",
                                   "Unknown ibv_wc opcode"}
         /\ tasks[Peer(c)].connected
         /\ tasks[Peer(c)].panicked = NoPanic
         /\ Tokens(Peer(c)) # {})
            => ENABLED ExecNext


C20_ConnectionsIsolated ==
    [][(app.io.pc = "idle" /\ app'.io.pc = "idle")
          => \A c \in Endpoints :
                 (app'[c] # app[c] \/ tasks'[c] # tasks[c])
                     => (app'[Peer(c)] = app[Peer(c)] /\ tasks'[Peer(c)] = tasks[Peer(c)])]_vars

\* A wait on a pop token of one connection has returned a buffer while the other
\* connection has completions no poll has drained and a push not yet returned.
C20_Witness ==
    \E c \in Endpoints :
        /\ app[c].popped # <<>>
        /\ Up(Peer(c))
        /\ tasks[Peer(c)].cq # <<>>
        /\ app[Peer(c)].tokens # {}


\* The place of a release in the order the claim gives: buffers, completion queue,
\* queue pair, protection domain.
ClaimedRank(name) ==
    CASE name = "cq" -> 2
      [] name = "queue_pair" -> 3
      [] name = "_protection_domain" -> 4
      [] OTHER -> 1

\* The place of a release in the order the drop has: the buffers of the pool and of
\* the push path, the queue pair, the completion queue, the buffers of the pending
\* map and of the completed stores, the protection domain.
DropRank(name) ==
    CASE name \in {"memory_pool", "receive_buffers", "work_requests", "push_work"} -> 1
      [] name = "queue_pair" -> 2
      [] name = "cq" -> 3
      [] name \in {"processed_requests", "completed_pops", "completed_pushes"} -> 4
      [] OTHER -> 5

\* C17 (as claimed): a dropped connection releases all its outstanding buffers first,
\* then the completion queue, then the queue pair, then the protection domain.
C17_BuffersCqQpPd ==
    \A i, j \in 1..Len(app.drop.released) :
        i < j => ClaimedRank(app.drop.released[i]) <= ClaimedRank(app.drop.released[j])

\* C17 (amended): a dropped connection whose completion pipeline has run releases the
\* buffers of the pool and of the push path first, then the queue pair, then the
\* completion queue, then the buffers of the pending map and of the completed stores,
\* and the protection domain last.
C17_ReleaseOrder ==
    \A i, j \in 1..Len(app.drop.released) :
        i < j => DropRank(app.drop.released[i]) <= DropRank(app.drop.released[j])

\* A connection is dropped whole, with buffers in the pool, in the pending map and in
\* a completed store.
C17_Witness ==
    /\ app.drop.of # "none"
    /\ app.drop.stack = <<>>
    /\ {"memory_pool", "processed_requests", "queue_pair", "cq", "_protection_domain"}
           \subseteq Range(app.drop.released)
    /\ {"completed_pops", "completed_pushes"} \cap Range(app.drop.released) # {}


\* The credits e has adopted so far: those it still has and those it has spent.
Adopted(e) == tasks[e].remaining_send_window + Len(tasks[e].posted_sends)

\* Every grant of the peer of e has been observed: none is in the cell of e, on its
\* way there, or read and not yet stored.
GrantsObserved(e) ==
    /\ tasks[e].our_recv_window = 0
    /\ tasks[e].push_state # "adopt"
    /\ \A i \in 1..Len(tasks[Peer(e)].sq) : tasks[Peer(e)].sq[i].op # "write"

RefillPolls(e) == {tasks[e], completions_coroutine(tasks[e])}

\* C22: a poll of the recv coroutine posts receives only when the receive count is
\* below WINDOW_SIZE / 2, and then one batch of WINDOW_SIZE with a grant of
\* WINDOW_SIZE, which leaves the count in WINDOW_SIZE .. WINDOW_SIZE +
\* WINDOW_SIZE / 2 - 1; at or above the low-water mark the poll changes nothing.
C22_RefillHysteresis ==
    \A e \in Endpoints : \A t \in RefillPolls(e) :
        LET r == recv_buffers_coroutine(t, WINDOW_SIZE)
        IN  /\ remaining_receive_windows(t) >= LowWater(WINDOW_SIZE) => r = t
            /\ r.posted_recvs # t.posted_recvs =>
                  /\ remaining_receive_windows(t) < LowWater(WINDOW_SIZE)
                  /\ r.posted_recvs = t.posted_recvs + WINDOW_SIZE
                  /\ Len(r.rq) = Len(t.rq) + WINDOW_SIZE
                  /\ r.sq = Append(t.sq, [op |-> "write", work_id |-> 0, memory |-> 0,
                                          value |-> WINDOW_SIZE])
                  /\ remaining_receive_windows(r) \in
                        WINDOW_SIZE..(WINDOW_SIZE + LowWater(WINDOW_SIZE) - 1)

\* A refill has been made on top of a receive not yet consumed: the count is at the
\* upper end of the range.
C22_Witness ==
    \E e \in Endpoints :
        /\ tasks[e].posted_recvs = 2 * WINDOW_SIZE
        /\ LowWater(WINDOW_SIZE) > 1
        /\ remaining_receive_windows(tasks[e]) = WINDOW_SIZE + LowWater(WINDOW_SIZE) - 1


\* C23: when connect or accept returns, the recv coroutine has run once and posted
\* WINDOW_SIZE receives: the receive count is WINDOW_SIZE, the pending map holds
\* WINDOW_SIZE buffers and the pool the other WINDOW_SIZE, whatever WINDOW_SIZE is.
C23_SetupPostsWindow ==
    [][\A e \in Endpoints :
          (~tasks[e].connected /\ tasks'[e].connected) =>
              /\ remaining_receive_windows(tasks'[e]) = WINDOW_SIZE
              /\ Cardinality(tasks'[e].processed_requests) = WINDOW_SIZE
              /\ Len(tasks'[e].rq) = WINDOW_SIZE
              /\ Len(tasks'[e].memory_pool) = WINDOW_SIZE]_vars


\* What neither push nor the push coroutine touches: the completed stores, the
\* receive count, the receives posted, the pool, the completion queue and the
\* position of the completion coroutine.
OutsidePush(t) ==
    <<t.completed_pushes, t.completed_pops, t.remaining_receive_window, t.rq,
      t.posted_recvs, t.memory_pool, t.cq, t.completions_state>>

\* A send credit is available to t: a local one, or a grant not yet acknowledged.
CreditAvailable(t) == t.remaining_send_window > 0 \/ t.our_recv_window # 0

\* The request with that work id is posted and recorded in the pending map.
PostedAndPending(t, work_id) ==
    /\ t.posted_sends # <<>>
    /\ t.posted_sends[Len(t.posted_sends)] = work_id
    /\ work_id \in Keys(t.processed_requests)
    /\ t.push_work = <<>> /\ t.work_requests = <<>>

\* C24: push enqueues the request and polls the push coroutine only: it leaves the
\* completed stores, the receive count, the receives and the completion queue as they
\* are, advances the work id counter by one, and when a send credit is available and
\* nothing is backlogged the request is posted and in the pending map when push
\* returns (when its poll of the push coroutine, cut or not, has ended).
C24_PushPollsPushOnly ==
    [][\A e \in Endpoints :
          LET t == tasks[e]
              r == tasks'[e]
          IN  /\ app'[e].pushes = app[e].pushes + 1 =>
                    /\ OutsidePush(r) = OutsidePush(t)
                    /\ r.work_id_counter = t.work_id_counter + 1
                    /\ t.work_id_counter \in
                          Range(WorkIds(r.push_work \o r.work_requests))
                              \cup Keys(r.processed_requests)
                    /\ (/\ CreditAvailable(t)
                        /\ t.push_work = <<>> /\ t.work_requests = <<>>
                        /\ r.push_state # "adopt"
                        /\ r.panicked = NoPanic)
                          => PostedAndPending(r, t.work_id_counter)
              /\ (/\ t.push_state = "adopt" /\ r.push_state # "adopt"
                  /\ app[e].pc = "idle"
                  /\ Len(t.push_work \o t.work_requests) = 1
                  /\ r.panicked = NoPanic)
                    => /\ OutsidePush(r) = OutsidePush(t)
                       /\ PostedAndPending(r, (t.push_work \o t.work_requests)[1].work_id)]_vars

\* A push has returned with its request posted and pending while completions wait in
\* the completion queue, which a poll of the completion coroutine would have drained.
C24_Witness ==
    \E e \in Endpoints :
        /\ app[e].pc = "idle"
        /\ tasks[e].push_state # "adopt"
        /\ tasks[e].posted_sends # <<>>
        /\ PostedAndPending(tasks[e], tasks[e].work_id_counter - 1)
        /\ \E i \in 1..Len(tasks[e].sq) :
               tasks[e].sq[i].op = "send"
                   /\ tasks[e].sq[i].work_id = tasks[e].work_id_counter - 1
        /\ tasks[e].cq # <<>>


\* C25: pop changes no engine state: no coroutine is polled, no receive posted, the
\* work id counter, the pool, the credit counters, the pending map and the completed
\* stores stay as they are; the program gets a Pop token and nothing else.
C25_PopChangesNothing ==
    [][\A e \in Endpoints :
          app'[e].pop_tokens = app[e].pop_tokens + 1 =>
              /\ tasks' = tasks
              /\ app' = [app EXCEPT ![e].pop_tokens = @ + 1]]_vars

\* A Pop token is out, not waited on yet, while the receive count of its connection
\* is below the low-water mark and completions wait to be drained.
C25_Witness ==
    \E e \in Endpoints :
        /\ Up(e)
        /\ app[e].pop_tokens > 0
        /\ app[e].pc = "idle"
        /\ tasks[e].cq # <<>>
        /\ remaining_receive_windows(tasks[e]) < LowWater(WINDOW_SIZE)


\* The token for which a wait of e returns in the step at hand, NoToken when none
\* does: the program gets a buffer and gives up a push token or a Pop token.
WaitReturns(e) ==
    IF app'[e].pc # "idle" \/ app'[e].held \subseteq app[e].held THEN NoToken
    ELSE IF app'[e].pop_tokens = app[e].pop_tokens - 1 THEN PopToken
    ELSE IF \E x \in app[e].tokens : app'[e].tokens = app[e].tokens \ {x}
    THEN PushToken((CHOOSE x \in app[e].tokens :
                        app'[e].tokens = app[e].tokens \ {x}).work_id)
    ELSE NoToken

\* The step at hand is a turn of the loop of a wait of e that does not return.
WaitTurns(e) ==
    /\ app[e].pc \in {"idle", "wait"}
    /\ app'[e].pc \in {"wait", "poll_task"}
    /\ app'[e].qt # NoToken
    /\ app'[Peer(e)] = app[Peer(e)]
    /\ tasks'[Peer(e)] = tasks[Peer(e)]
    /\ Len(tasks'[e].sq) >= Len(tasks[e].sq)
    /\ Len(tasks'[e].cq) <= Len(tasks[e].cq)

\* The third part of a turn from the poll of the push coroutine on: the recv
\* coroutine only below the low-water mark, then the completion coroutine.
AfterPushPoll(t) ==
    completions_coroutine(
        IF remaining_receive_windows(t) < LowWater(WINDOW_SIZE)
        THEN recv_buffers_coroutine(t, WINDOW_SIZE) ELSE t)

\* C26: a turn of the loop of wait first looks at the completed store of the token
\* and returns from it without a poll; otherwise it polls the completion coroutine
\* alone and looks again; otherwise it polls the push coroutine, the recv coroutine
\* only below the low-water mark, and the completion coroutine, and takes another
\* turn. What it returns comes from the completed store of the token's connection
\* and kind.
C26_WaitTurn ==
    [][\A e \in Endpoints :
          LET t == tasks[e]
              r == tasks'[e]
              qt == WaitReturns(e)
              drained == completions_coroutine(t)
              m == CHOOSE b \in app'[e].held : b \notin app[e].held
          IN  /\ qt # NoToken =>
                    /\ wait_found(t, qt) => r = wait(t, qt)
                    /\ ~wait_found(t, qt) =>
                          /\ wait_found(drained, qt)
                          /\ r = wait(drained, qt)
                    /\ LET from == IF wait_found(t, qt) THEN t ELSE drained
                       IN  IF qt.op = "Push"
                           THEN [work_id |-> qt.work_id, memory |-> m]
                                    \in from.completed_pushes
                           ELSE /\ from.completed_pops # <<>>
                                /\ m \in Range(from.completed_pops)
              /\ WaitTurns(e) =>
                    /\ ~wait_found(t, app'[e].qt)
                    /\ drained.panicked # NoPanic \/ ~wait_found(drained, app'[e].qt)
                    /\ LET pushed == push_coroutine(drained)
                       IN  IF pushed.push_state = "adopt"
                           THEN r = pushed /\ app'[e].pc = "poll_task"
                           ELSE r = AfterPushPoll(pushed) /\ app'[e].pc = "wait"
              /\ (app[e].pc = "poll_task" /\ app'[e].pc # "poll_task")
                    => r = AfterPushPoll(push_coroutine(t)) /\ app'[e].pc = "wait"]_vars

\* A wait has taken a turn through all three parts and is in its next one, with a
\* completion to drain, and an earlier wait of the same program has returned.
C26_Witness ==
    \E e \in Endpoints :
        /\ app[e].pc = "wait"
        /\ tasks[e].cq # <<>>
        /\ tasks[e].posted_sends # <<>>
        /\ app[e].held # {}


\* C27: one poll of the completion coroutine handles at most one batch of the
\* completion queue (what one poll of the queue returns, CQ_ELEMENTS entries at most)
\* and then yields; the next poll goes on with the next batch; a poll that finds the
\* queue empty changes nothing but the place the coroutine waits at.
C27_OneBatchPerPoll ==
    [][\A e \in Endpoints :
          LET t == tasks[e]
              r == tasks'[e]
          IN  (r # t /\ Len(r.cq) <= Len(t.cq)) =>
                  IF t.cq = <<>>
                  THEN r = [t EXCEPT !.completions_state = "next"]
                  ELSE /\ r.cq = Drop(t.cq, min(Len(t.cq), CQ_ELEMENTS))
                       /\ r.completions_state = "yield"]_vars

\* The coroutine has drained one batch and yielded with more than a batch left.
C27_Witness ==
    \E e \in Endpoints :
        /\ tasks[e].completions_state = "yield"
        /\ Len(tasks[e].cq) > CQ_ELEMENTS


\* C28: between two polls the receive count equals the number of receives in the
\* pending map: a refill counts the receives it inserts, a batch of completions
\* uncounts the receives it removes, and the subtraction never underflows.
C28_ReceiveCountIsPending ==
    \A e \in Endpoints :
        /\ tasks[e].panicked # "attempt to subtract with overflow"
        /\ tasks[e].panicked = NoPanic =>
              remaining_receive_windows(tasks[e]) = Cardinality(RecvPinned(e))

\* After two refills and a drained batch with a receive in it, some receives are
\* pending and some are not any more.
C28_Witness ==
    \E e \in Endpoints :
        /\ Up(e)
        /\ tasks[e].posted_recvs = 2 * WINDOW_SIZE
        /\ remaining_receive_windows(tasks[e]) \in 1..(2 * WINDOW_SIZE - 1)
        /\ tasks[e].completed_pops # <<>>


\* What the completion coroutine works on: the pending map, the completed stores,
\* the credit counters, the buffers' lengths and the panic it may end in.
Engine(t) ==
    <<t.processed_requests, t.completed_pushes, t.completed_pops,
      t.remaining_send_window, t.remaining_receive_window, t.our_recv_window,
      t.len, t.memory_pool, t.panicked>>

\* The completion queue s with completion c put in after its first i entries.
PutIn(s, i, c) == Take(s, i) \o <<c>> \o Drop(s, i)

\* C29: a completion of a one-sided write or read with success status has no effect:
\* the batch it is in leaves the pending map, the completed stores and the credit
\* counters as the same batch without it does.
C29_RdmaCompletionsNoEffect ==
    \A e \in Endpoints : \A opcode \in {"RDMA_WRITE", "RDMA_READ"} :
        \A i \in 0..Len(tasks[e].cq) :
            Engine(completions_coroutine(
                       [tasks[e] EXCEPT !.cq = PutIn(@, i, Completion(0, "success", opcode, 0))]))
                = Engine(completions_coroutine(tasks[e]))

\* The completion of a grant write waits in a completion queue together with the
\* completion of a send or of a receive.
C29_Witness ==
    \E e \in Endpoints :
        /\ Up(e)
        /\ \E i, j \in 1..Len(tasks[e].cq) :
               /\ tasks[e].cq[i].opcode = "RDMA_WRITE"
               /\ tasks[e].cq[j].opcode \in {"RECV", "SEND"}


\* The buffers in the completed stores of e.
Completed(t) == {x.memory : x \in t.completed_pushes} \cup Range(t.completed_pops)

\* C30: a completed buffer is surfaced once: a buffer that a wait has handed to the
\* program, copies of tokens included, is in no completed store afterwards, so that no
\* later wait can return it again; and a push token for which a wait has returned is
\* never found complete again.
C30_SurfacedOnce ==
    \A e \in Endpoints :
        /\ app[e].held \cap Completed(tasks[e]) = {}
        /\ \A qt \in Copies(e) : qt.op = "Push" => ~wait_found(tasks[e], qt)

\* A wait on the copy of a push token whose buffer the program was handed before is
\* in progress, and waits on Pop tokens have returned two buffers to a program that
\* still has a Pop token to wait on.
C30_Witness ==
    \E e \in Endpoints :
        /\ \E d \in Endpoints :
               /\ app[d].pc = "wait"
               /\ app[d].qt \in Copies(d)
        /\ Len(app[e].popped) = 2
        /\ app[e].pop_tokens = 1

====
